---- MODULE Spec2Model ----
\* hashstructure: Hash(v, format, opts) walks a Go value by reflection and
\* feeds a canonical byte stream to an MD5 digest.  This module states the
\* walker of src/hashstructure.go over an explicit universe of Go values
\* and checks the documented properties of Hash against it.
EXTENDS Integers, Sequences, FiniteSets, TLC

\* ---------------------------------------------------------------------
\* crypto/md5 (RFC 1321): the digest behind walker.h (md5.New, Write,
\* Sum).  A 32-bit word is the pair <<high 16 bits, low 16 bits>>, so
\* that no intermediate value leaves the range of TLC's integers.
\* ---------------------------------------------------------------------
Pow2(n) == <<1, 2, 4, 8, 16, 32, 64, 128, 256, 512, 1024, 2048, 4096, 8192,
              16384, 32768, 65536>>[n + 1]

MD5K ==
  <<
     <<55146, 42104>>, <<59591, 46934>>, <<9248, 28891>>, <<49597, 52974>>,
     <<62844, 4015>>, <<18311, 50730>>, <<43056, 17939>>, <<64838, 38145>>,
     <<27008, 39128>>, <<35652, 63407>>, <<65535, 23473>>, <<35164, 55230>>,
     <<27536, 4386>>, <<64920, 29075>>, <<42617, 17294>>, <<18868, 2081>>,
     <<63006, 9570>>, <<49216, 45888>>, <<9822, 23121>>, <<59830, 51114>>,
     <<54831, 4189>>, <<580, 5203>>, <<55457, 59009>>, <<59347, 64456>>,
     <<8673, 52710>>, <<49975, 2006>>, <<62677, 3463>>, <<17754, 5357>>,
     <<43491, 59653>>, <<64751, 41976>>, <<26479, 729>>, <<36138, 19594>>,
     <<65530, 14658>>, <<34673, 63105>>, <<28061, 24866>>, <<64997, 14348>>,
     <<42174, 59972>>, <<19422, 53161>>, <<63163, 19296>>, <<48831, 48240>>,
     <<10395, 32454>>, <<60065, 10234>>, <<54511, 12421>>, <<1160, 7429>>,
     <<55764, 53305>>, <<59099, 39397>>, <<8098, 31992>>, <<50348, 22117>>,
     <<62505, 8772>>, <<17194, 65431>>, <<43924, 9127>>, <<64659, 41017>>,
     <<25947, 22979>>, <<36620, 52370>>, <<65519, 62589>>, <<34180, 24017>>,
     <<28584, 32335>>, <<65068, 59104>>, <<41729, 17172>>, <<19976, 4513>>,
     <<63315, 32386>>, <<48442, 62005>>, <<10967, 53947>>, <<60294, 54161>>
  >>

MD5S ==
  <<
     7, 12, 17, 22, 7, 12, 17, 22, 7, 12, 17, 22, 7, 12, 17, 22,
     5, 9, 14, 20, 5, 9, 14, 20, 5, 9, 14, 20, 5, 9, 14, 20,
     4, 11, 16, 23, 4, 11, 16, 23, 4, 11, 16, 23, 4, 11, 16, 23,
     6, 10, 15, 21, 6, 10, 15, 21, 6, 10, 15, 21, 6, 10, 15, 21
  >>

MD5InitState == << <<26437, 8961>>, <<61389, 43913>>, <<39098, 56574>>, <<4146, 21622>> >>

Add32(a, b) ==
  LET lo == a[2] + b[2]
  IN  << (a[1] + b[1] + (lo \div 65536)) % 65536, lo % 65536 >>

RotL32(a, s) ==
  LET hi == IF s >= 16 THEN a[2] ELSE a[1]
      lo == IF s >= 16 THEN a[1] ELSE a[2]
      r  == s % 16
  IN  << ((hi * Pow2(r)) % 65536) + (lo \div Pow2(16 - r)),
         ((lo * Pow2(r)) % 65536) + (hi \div Pow2(16 - r)) >>

\* One bit of the round functions F, G, H, I (f = 0..3).
MD5MixBit(f, bb, cb, db) ==
  CASE f = 0 -> IF bb = 1 THEN cb ELSE db
    [] f = 1 -> IF db = 1 THEN bb ELSE cb
    [] f = 2 -> (bb + cb + db) % 2
    [] f = 3 -> (cb + (IF bb = 1 \/ db = 0 THEN 1 ELSE 0)) % 2

MD5MixDigit(f, b, c, d) ==
  MD5MixBit(f, b % 2, c % 2, d % 2)
  + 2 * MD5MixBit(f, (b \div 2) % 2, (c \div 2) % 2, (d \div 2) % 2)
  + 4 * MD5MixBit(f, (b \div 4) % 2, (c \div 4) % 2, (d \div 4) % 2)
  + 8 * MD5MixBit(f, b \div 8, c \div 8, d \div 8)

\* One round function on 4-bit digits, tabulated as a sequence: entry
\* 256*b + 16*c + d + 1 holds f(b, c, d).
MD5MixRow(f) ==
  [k \in 1..4096 |->
     MD5MixDigit(f, (k - 1) \div 256, ((k - 1) \div 16) % 16, (k - 1) % 16)] \o << >>

MD5MixTable == << MD5MixRow(0), MD5MixRow(1), MD5MixRow(2), MD5MixRow(3) >>

MD5Mix16(f, b, c, d) ==
  LET t == MD5MixTable[f + 1]
  IN  t[256 * (b % 16) + 16 * (c % 16) + (d % 16) + 1]
      + 16 * t[256 * ((b \div 16) % 16) + 16 * ((c \div 16) % 16) + ((d \div 16) % 16) + 1]
      + 256 * t[256 * ((b \div 256) % 16) + 16 * ((c \div 256) % 16) + ((d \div 256) % 16) + 1]
      + 4096 * t[256 * (b \div 4096) + 16 * (c \div 4096) + (d \div 4096) + 1]

MD5Mix(f, b, c, d) ==
  << MD5Mix16(f, b[1], c[1], d[1]), MD5Mix16(f, b[2], c[2], d[2]) >>

MD5Index(i) == CASE i < 16 -> i
                 [] i >= 16 /\ i < 32 -> (5 * i + 1) % 16
                 [] i >= 32 /\ i < 48 -> (3 * i + 5) % 16
                 [] i >= 48 -> (7 * i) % 16

RECURSIVE MD5Rounds(_, _, _)
MD5Rounds(i, st, m) ==
  IF i = 64 \/ Len(st) # 4 THEN st
  ELSE LET f == Add32(Add32(MD5Mix(i \div 16, st[2], st[3], st[4]), st[1]),
                      Add32(MD5K[i + 1], m[MD5Index(i) + 1]))
       IN  MD5Rounds(i + 1,
                     << st[4], Add32(st[2], RotL32(f, MD5S[i + 1])), st[2], st[3] >>,
                     m)

MD5Block(st, blk) ==
  LET m == [j \in 1..16 |->
              << blk[4 * j - 1] + 256 * blk[4 * j], blk[4 * j - 3] + 256 * blk[4 * j - 2] >>]
      r == MD5Rounds(0, st, m)
  IN  << Add32(st[1], r[1]), Add32(st[2], r[2]), Add32(st[3], r[3]), Add32(st[4], r[4]) >>

MD5Pad(msg) ==
  LET n    == Len(msg)
      z    == (119 - (n % 64)) % 64
      bits == 8 * n
  IN  msg \o <<128>> \o [j \in 1..z |-> 0]
          \o << bits % 256, (bits \div 256) % 256, (bits \div 65536) % 256,
                 bits \div 16777216, 0, 0, 0, 0 >>

RECURSIVE MD5Blocks(_, _)
MD5Blocks(st, bytes) ==
  IF bytes = << >> \/ Len(st) # 4 THEN st
  ELSE MD5Blocks(MD5Block(st, SubSeq(bytes, 1, 64)), SubSeq(bytes, 65, Len(bytes)))

WordBytes(w) == << w[2] % 256, w[2] \div 256, w[1] % 256, w[1] \div 256 >>

\* h.Sum(nil) of an md5.New() that was fed the bytes `msg`.
MD5Sum(msg) ==
  LET st == MD5Blocks(MD5InitState, MD5Pad(msg))
  IN  WordBytes(st[1]) \o WordBytes(st[2]) \o WordBytes(st[3]) \o WordBytes(st[4])


\* ---------------------------------------------------------------------
\* Encoders: encoding/binary little-endian, fmt's %d, bytes.Compare, sort.
\* ---------------------------------------------------------------------

\* The `size` low bytes of n, least significant first (two's complement
\* for a negative n: % and \div round towards minus infinity).
RECURSIVE LittleEndian(_, _)
LittleEndian(n, size) ==
  IF size = 0 THEN << >>
  ELSE << n % 256 >> \o LittleEndian(n \div 256, size - 1)

\* strconv's decimal digits of a natural number, as ASCII bytes.
RECURSIVE Decimal(_)
Decimal(n) ==
  IF n < 10 THEN << 48 + n >>
  ELSE Decimal(n \div 10) \o << 48 + (n % 10) >>

\* fmt.Sprintf("%d", b) for a []byte: "[115 205 ...]".
RECURSIVE DecimalList(_, _)
DecimalList(b, i) ==
  IF i > Len(b) THEN << >>
  ELSE (IF i > 1 THEN << 32 >> ELSE << >>) \o Decimal(b[i]) \o DecimalList(b, i + 1)

FormatBytesD(b) == << 91 >> \o DecimalList(b, 1) \o << 93 >>

\* bytes.Compare(a, b) < 0.
RECURSIVE BytesLess(_, _)
BytesLess(a, b) ==
  IF b = << >> THEN FALSE
  ELSE IF a = << >> THEN TRUE
  ELSE IF a[1] # b[1] THEN a[1] < b[1]
  ELSE BytesLess(Tail(a), Tail(b))

RECURSIVE InsertSorted(_, _)
InsertSorted(x, sorted) ==
  IF sorted = << >> THEN << x >>
  ELSE IF BytesLess(x, sorted[1]) THEN << x >> \o sorted
  ELSE << sorted[1] >> \o InsertSorted(x, Tail(sorted))

\* Mutation of SortHashes: the digests are written in the order gathered.
KeepOrder(hashes) == hashes

\* sort.Slice(hashes, bytes.Compare(...) < 0).
RECURSIVE SortHashes(_)
SortHashes(hashes) ==
  IF hashes = << >> THEN << >>
  ELSE InsertSorted(hashes[1], SortHashes(Tail(hashes)))

RECURSIVE Concat(_)
Concat(seqs) ==
  IF seqs = << >> THEN << >> ELSE seqs[1] \o Concat(Tail(seqs))

\* ---------------------------------------------------------------------
\* Go values as reflect presents them.  k is the reflect.Kind; text is a
\* sequence of bytes.  A type is stood for by its zero value.
\* ---------------------------------------------------------------------
SignedKinds   == {"int", "int8", "int16", "int32", "int64"}
UnsignedKinds == {"uint", "uint8", "uint16", "uint32", "uint64"}
FloatKinds    == {"float32", "float64"}
ComplexKinds  == {"complex64", "complex128"}
\* What `k >= reflect.Int && k <= reflect.Complex64` admits once int, uint
\* and bool are widened: Int8 .. Uint64, Uintptr, Float32, Float64 and
\* Complex64 (Complex128 lies beyond).
NumericKinds  ==
  ((SignedKinds \cup UnsignedKinds) \ {"int", "uint"})
  \cup {"uintptr", "float32", "float64", "complex64"}

\* The zero reflect.Value: reflect.ValueOf(nil), Elem() of a nil
\* interface, reflect.Indirect of a nil pointer.
Invalid == [k |-> "invalid"]

IntV(kind, n)   == [k |-> kind, n |-> n]
BoolV(b)        == [k |-> "bool", b |-> b]
StringV(s)      == [k |-> "string", s |-> s]
\* A float or complex value; n, re and im are naturals below 2^20.
FloatV(kind, n)        == [k |-> kind, n |-> n]
ComplexV(kind, re, im) == [k |-> kind, re |-> re, im |-> im]
\* A value of kind chan or func (made, so not nil), and the nil one.
OtherV(kind)    == [k |-> kind, isnil |-> FALSE]
NilOther(kind)  == [k |-> kind, isnil |-> TRUE]
SliceV(elems)   == [k |-> "slice", isnil |-> FALSE, elems |-> elems]
NilSlice        == [k |-> "slice", isnil |-> TRUE, elems |-> << >>]
ArrayV(elems)   == [k |-> "array", elems |-> elems]
\* entries: the <<key, value>> pairs in the order MapKeys returns the keys.
MapV(entries)   == [k |-> "map", isnil |-> FALSE, entries |-> entries]
NilMap          == [k |-> "map", isnil |-> TRUE, entries |-> << >>]
IfaceV(v)       == [k |-> "interface", isnil |-> FALSE, elem |-> v]
NilIface        == [k |-> "interface", isnil |-> TRUE, elem |-> Invalid]

\* What a struct type implements (value receivers):
\*   hashable       Hash() (uint64, error)
\*   includable     HashInclude(field, v) (bool, error): fields it
\*                  rejects (skip) and fields it fails on (fail)
\*   includableMap  HashIncludeMap(field, k, v) (bool, error): keys it
\*                  rejects and keys it fails on
\*   stringer       String() string
NoImpl ==
  [hashable      |-> [has |-> FALSE, h |-> 0, err |-> FALSE],
   includable    |-> [has |-> FALSE, skip |-> {}, fail |-> {}],
   includableMap |-> [has |-> FALSE, skip |-> {}, fail |-> {}],
   stringer      |-> [has |-> FALSE, s |-> << >>]]

\* A struct field: its name, whether it is exported (PkgPath = ""), its
\* tag as a function from tag key to tag value, and its value.
FieldV(name, tags, v)  == [name |-> name, exported |-> TRUE, tags |-> tags, v |-> v]
Unexported(name, v)    == [name |-> name, exported |-> FALSE, tags |-> << >>, v |-> v]
StructV(name, fields)  == [k |-> "struct", name |-> name, fields |-> fields, impl |-> NoImpl]
StructImpl(name, fields, impl) ==
  [k |-> "struct", name |-> name, fields |-> fields, impl |-> impl]

\* reflect.Zero(t), t given as the type of v.
RECURSIVE ZeroOf(_)
ZeroOf(v) ==
  CASE v.k \in SignedKinds \cup UnsignedKinds \cup {"uintptr"} -> IntV(v.k, 0)
    [] v.k \in FloatKinds   -> FloatV(v.k, 0)
    [] v.k \in ComplexKinds -> ComplexV(v.k, 0, 0)
    [] v.k = "bool"      -> BoolV(FALSE)
    [] v.k = "string"    -> StringV(<< >>)
    [] v.k = "slice"     -> NilSlice
    [] v.k = "map"       -> NilMap
    [] v.k = "interface" -> NilIface
    [] v.k = "array"     -> ArrayV([i \in 1..Len(v.elems) |-> ZeroOf(v.elems[i])])
    [] v.k = "struct"    ->
         [v EXCEPT !.fields = [i \in 1..Len(v.fields) |->
                                 [v.fields[i] EXCEPT !.v = ZeroOf(v.fields[i].v)]]]
    [] v.k = "ptr"       -> [k |-> "ptr", isnil |-> TRUE, elem |-> Invalid, zero |-> v.zero]
    [] v.k \in {"chan", "func"} -> NilOther(v.k)

\* A pointer carries its element type (zero) with it: v.Type().Elem().
PtrV(v)      == [k |-> "ptr", isnil |-> FALSE, elem |-> v, zero |-> ZeroOf(v)]
NilPtr(zero) == [k |-> "ptr", isnil |-> TRUE, elem |-> Invalid, zero |-> zero]

\* reflect.Value.IsZero.
RECURSIVE IsZero(_)
IsZero(v) ==
  CASE v.k \in SignedKinds \cup UnsignedKinds \cup {"uintptr"} -> v.n = 0
    [] v.k \in FloatKinds   -> v.n = 0
    [] v.k \in ComplexKinds -> v.re = 0 /\ v.im = 0
    [] v.k = "bool"      -> ~v.b
    [] v.k = "string"    -> v.s = << >>
    [] v.k \in {"slice", "map", "interface", "ptr", "chan", "func"} -> v.isnil
    [] v.k = "array"     -> \A i \in 1..Len(v.elems) : IsZero(v.elems[i])
    [] v.k = "struct"    -> \A i \in 1..Len(v.fields) : IsZero(v.fields[i].v)

\* ---------------------------------------------------------------------
\* github.com/markphelps/optional: a struct type per kind whose one
\* unexported field points to the payload, nil when the value is absent.
\* ---------------------------------------------------------------------
OptionalPkg == "github.com/markphelps/optional"

\* []byte(s) for the Go identifiers and string literals met: the type
\* names visitOptional switches on and the texts it writes, and the type
\* names, field names and map keys of the values hashed.
Utf8(s) ==
  CASE s = "String" -> << 83, 116, 114, 105, 110, 103 >>
    [] s = "Error" -> << 69, 114, 114, 111, 114 >>
    [] s = "Bool" -> << 66, 111, 111, 108 >>
    [] s = "Int8" -> << 73, 110, 116, 56 >>
    [] s = "Byte" -> << 66, 121, 116, 101 >>
    [] s = "Int16" -> << 73, 110, 116, 49, 54 >>
    [] s = "Int32" -> << 73, 110, 116, 51, 50 >>
    [] s = "Rune" -> << 82, 117, 110, 101 >>
    [] s = "Int64" -> << 73, 110, 116, 54, 52 >>
    [] s = "Int" -> << 73, 110, 116 >>
    [] s = "Uint8" -> << 85, 105, 110, 116, 56 >>
    [] s = "Uint16" -> << 85, 105, 110, 116, 49, 54 >>
    [] s = "Uint32" -> << 85, 105, 110, 116, 51, 50 >>
    [] s = "Uint64" -> << 85, 105, 110, 116, 54, 52 >>
    [] s = "Uint" -> << 85, 105, 110, 116 >>
    [] s = "Float32" -> << 70, 108, 111, 97, 116, 51, 50 >>
    [] s = "Float64" -> << 70, 108, 111, 97, 116, 54, 52 >>
    [] s = "Complex64" -> << 67, 111, 109, 112, 108, 101, 120, 54, 52 >>
    [] s = "Complex128" -> << 67, 111, 109, 112, 108, 101, 120, 49, 50, 56 >>
    [] s = "Uintptr" -> << 85, 105, 110, 116, 112, 116, 114 >>
    [] s = "nil" -> << 110, 105, 108 >>
    [] s = "string" -> << 115, 116, 114, 105, 110, 103 >>
    [] s = "error" -> << 101, 114, 114, 111, 114 >>
    [] s = "true" -> << 116, 114, 117, 101 >>
    [] s = "false" -> << 102, 97, 108, 115, 101 >>
    [] s = "hello" -> << 104, 101, 108, 108, 111 >>
    [] s = "InnerStruct" -> << 73, 110, 110, 101, 114, 83, 116, 114, 117, 99, 116 >>
    [] s = "optionalStruct" -> << 111, 112, 116, 105, 111, 110, 97, 108, 83, 116, 114, 117, 99, 116 >>
    [] s = "outerStruct" -> << 111, 117, 116, 101, 114, 83, 116, 114, 117, 99, 116 >>
    [] s = "S" -> << 83 >>
    [] s = "T" -> << 84 >>
    [] s = "R" -> << 82 >>
    [] s = "F" -> << 70 >>
    [] s = "G" -> << 71 >>
    [] s = "X" -> << 88 >>
    [] s = "P" -> << 80 >>
    [] s = "A" -> << 65 >>
    [] s = "B" -> << 66 >>
    [] s = "structB" -> << 115, 116, 114, 117, 99, 116, 66 >>
    [] s = "bar" -> << 98, 97, 114 >>
    [] s = "baz" -> << 98, 97, 122 >>
    [] s = "bat" -> << 98, 97, 116 >>
    [] s = "1" -> << 49 >>
    [] s = "2" -> << 50 >>
    [] s = "Time" -> << 84, 105, 109, 101 >>
    [] s = "St" -> << 83, 116 >>
    [] s = "str" -> << 115, 116, 114 >>
    [] s = "wall" -> << 119, 97, 108, 108 >>
    [] s = "ext" -> << 101, 120, 116 >>
    [] s = "loc" -> << 108, 111, 99 >>
    [] s = "Location" -> << 76, 111, 99, 97, 116, 105, 111, 110 >>
    [] s = " +0000 UTC" -> << 32, 43, 48, 48, 48, 48, 32, 85, 84, 67 >>

\* The payload type of each optional type, as its zero value (the error
\* of optional.Error is stood for by its message).
OptionalZero(typeName) ==
  CASE typeName = Utf8("String")     -> StringV(<< >>)
    [] typeName = Utf8("Error")      -> StringV(<< >>)
    [] typeName = Utf8("Bool")       -> BoolV(FALSE)
    [] typeName = Utf8("Int8")       -> IntV("int8", 0)
    [] typeName = Utf8("Byte")       -> IntV("uint8", 0)
    [] typeName = Utf8("Int16")      -> IntV("int16", 0)
    [] typeName = Utf8("Int32")      -> IntV("int32", 0)
    [] typeName = Utf8("Rune")       -> IntV("int32", 0)
    [] typeName = Utf8("Int64")      -> IntV("int64", 0)
    [] typeName = Utf8("Int")        -> IntV("int", 0)
    [] typeName = Utf8("Uint8")      -> IntV("uint8", 0)
    [] typeName = Utf8("Uint16")     -> IntV("uint16", 0)
    [] typeName = Utf8("Uint32")     -> IntV("uint32", 0)
    [] typeName = Utf8("Uint64")     -> IntV("uint64", 0)
    [] typeName = Utf8("Uint")       -> IntV("uint", 0)
    [] typeName = Utf8("Float32")    -> FloatV("float32", 0)
    [] typeName = Utf8("Float64")    -> FloatV("float64", 0)
    [] typeName = Utf8("Complex64")  -> ComplexV("complex64", 0, 0)
    [] typeName = Utf8("Complex128") -> ComplexV("complex128", 0, 0)
    [] typeName = Utf8("Uintptr")    -> IntV("uintptr", 0)

\* optional.NewX(x) and the zero optional.X{}.
Some(typeName, x) ==
  [k |-> "struct", name |-> typeName, pkg |-> OptionalPkg, impl |-> NoImpl,
   fields |-> << Unexported(typeName,
                   [k |-> "ptr", isnil |-> FALSE, elem |-> x,
                    zero |-> OptionalZero(typeName)]) >>]
None(typeName) ==
  [k |-> "struct", name |-> typeName, pkg |-> OptionalPkg, impl |-> NoImpl,
   fields |-> << Unexported(typeName, NilPtr(OptionalZero(typeName))) >>]

\* o.Present() and o.OrElse(v).
Present(o)   == ~o.fields[1].v.isnil
OrElse(o, v) == IF Present(o) THEN o.fields[1].v.elem ELSE v

\* t.PkgPath(): the optional types and time.Time carry one here.
PkgPath(v) == IF "pkg" \in DOMAIN v THEN v.pkg ELSE ""

\* ---------------------------------------------------------------------
\* time.Time: wall, ext and loc.  The times generated are the UTC times
\* without monotonic reading and without nanoseconds, sec seconds after
\* 0001-01-01 00:00:00 (0 <= sec < 2^31): wall is 0, ext is sec, loc is
\* nil.  TimeV(0) is time.Time{}.
\* ---------------------------------------------------------------------
\* reflect.TypeOf(time.Time{})
timeType == [pkg |-> "time", name |-> Utf8("Time")]

\* v.Type(), for a struct.
TypeOf(v) == [pkg |-> PkgPath(v), name |-> v.name]

TimeV(sec) ==
  [k |-> "struct", name |-> Utf8("Time"), pkg |-> "time",
   impl |-> [NoImpl EXCEPT !.stringer = [has |-> TRUE, s |-> << >>]],
   fields |-> << Unexported(Utf8("wall"), IntV("uint64", 0)),
                 Unexported(Utf8("ext"), IntV("int64", sec)),
                 Unexported(Utf8("loc"), NilPtr(StructV(Utf8("Location"), << >>))) >>]

\* t.MarshalBinary(): version 1, the seconds and the nanoseconds in
\* big-endian order, and the zone offset -1 that stands for UTC.
MarshalBinary(t) ==
  LET le == LittleEndian(t.fields[2].v.n, 8)
  IN  << 1 >> \o [i \in 1..8 |-> le[9 - i]] \o << 0, 0, 0, 0 >> \o << 255, 255 >>

\* The digits of n, zero-padded to the given width.
RECURSIVE Padded(_, _)
Padded(n, width) ==
  IF width = 0 THEN << >> ELSE Padded(n \div 10, width - 1) \o << 48 + (n % 10) >>

\* t.String(): "2006-01-02 15:04:05 -0700 MST" for a UTC time.  Every
\* fourth year is a leap year in the years reached (1 to 69).
TimeString(t) ==
  LET sec    == t.fields[2].v.n
      days   == sec \div 86400
      inDay  == sec % 86400
      inCyc  == days % 1461
      yInCyc == IF inCyc \div 365 > 3 THEN 3 ELSE inCyc \div 365
      year   == 1 + 4 * (days \div 1461) + yInCyc
      yday   == inCyc - 365 * yInCyc
      feb    == IF yInCyc = 3 THEN 29 ELSE 28
      lens   == << 31, feb, 31, 30, 31, 30, 31, 31, 30, 31, 30, 31 >>
      RECURSIVE Before(_)
      Before(m) == IF m = 1 THEN 0 ELSE Before(m - 1) + lens[m - 1]
      month  == CHOOSE m \in 1..12 : Before(m) <= yday /\ yday < Before(m) + lens[m]
  IN  Padded(year, 4) \o << 45 >> \o Padded(month, 2) \o << 45 >>
      \o Padded(yday - Before(month) + 1, 2) \o << 32 >>
      \o Padded(inDay \div 3600, 2) \o << 58 >> \o Padded((inDay % 3600) \div 60, 2)
      \o << 58 >> \o Padded(inDay % 60, 2) \o Utf8(" +0000 UTC")

\* innerV.Interface().(fmt.Stringer) and impl.String().  The dynamic
\* value is a Stringer when its type has a String method (value
\* receiver), or points to such a type; calling String through a nil
\* pointer panics.
Stringer(v) ==
  LET d == IF v.k = "interface" THEN v.elem ELSE v
      String(x) == IF TypeOf(x) = timeType THEN TimeString(x) ELSE x.impl.stringer.s
  IN  CASE d.k = "struct" ->
             [ok |-> d.impl.stringer.has, panics |-> FALSE,
              s |-> IF d.impl.stringer.has THEN String(d) ELSE << >>]
        [] d.k = "ptr" /\ d.zero.k = "struct" ->
             [ok |-> d.zero.impl.stringer.has, panics |-> d.isnil,
              s |-> IF d.zero.impl.stringer.has /\ ~d.isnil THEN String(d.elem) ELSE << >>]
        [] OTHER -> [ok |-> FALSE, panics |-> FALSE, s |-> << >>]

\* ---------------------------------------------------------------------
\* Options, formats, errors.
\* ---------------------------------------------------------------------
formatInvalid == 0
FormatMD5     == 1
formatMax     == 2

visitFlagSet  == 2

\* opts == nil.
NilOpts == [isnil |-> TRUE]

\* &HashOptions{}.
DefaultOpts ==
  [TagName |-> "", ZeroNil |-> FALSE, IgnoreZeroValue |-> FALSE,
   SlicesAsSets |-> FALSE, UseStringer |-> FALSE]

NilErr           == [e |-> "nil"]
ErrFormat        == [e |-> "ErrFormat"]
ErrNotStringer(field) == [e |-> "ErrNotStringer", Field |-> field]
ErrUnknownKind(kind)  == [e |-> "unknown kind to hash", kind |-> kind]
\* The error of binary.Write for data that has no fixed-size encoding.
ErrBinaryWrite(kind)  == [e |-> "binary.Write: invalid type", kind |-> kind]
\* A run-time panic: the call does not return.
Panic(what)      == [e |-> "panic", what |-> what]
\* The error a Hash, HashInclude or HashIncludeMap hook returns.
ErrHook(hook)    == [e |-> "hook error", hook |-> hook]

\* A nil []byte.
NilBytes == << >>

\* ctx == nil, and &visitCtx{Flags, Struct, StructField}.
NilCtx == [isnil |-> TRUE, Flags |-> 0, Struct |-> Invalid, StructField |-> << >>]
VisitCtx(flags, parent, field) ==
  [isnil |-> FALSE, Flags |-> flags, Struct |-> parent, StructField |-> field]

\* The walker after a step: the bytes written to w.h so far, and the
\* error the step returns.
Ok(h)      == [h |-> h, err |-> NilErr]
Fail(h, e) == [h |-> h, err |-> e]

\* fieldType.Tag.Get(w.tag).
TagGet(tags, key) == IF key \in DOMAIN tags THEN tags[key] ELSE ""

\* Mutation of Ignored: only the word "ignore" excludes a field.
IgnoredWordOnly(tag) == tag = "ignore"

\* tag == "ignore" || tag == "-"
Ignored(tag) == tag = "ignore" \/ tag = "-"

\* Mutations of IsSet: the set flag is never seen; every slice is a set.
NeverSet(ctx) == FALSE
AlwaysSet(ctx) == TRUE

\* if ctx != nil { set = (ctx.Flags & visitFlagSet) != 0 }
IsSet(ctx) == ~ctx.isnil /\ (ctx.Flags \div visitFlagSet) % 2 = 1

\* ---------------------------------------------------------------------
\* The walker.
\* ---------------------------------------------------------------------

\* visit's loop: strip interfaces and pointers; under ZeroNil remember
\* the element type of the last pointer stripped.  <<value, t>>.
RECURSIVE Unwrap(_, _, _)
Unwrap(v, t, zeroNil) ==
  IF v.k = "interface" THEN Unwrap(v.elem, t, zeroNil)
  ELSE IF v.k = "ptr" THEN Unwrap(v.elem, IF zeroNil THEN v.zero ELSE t, zeroNil)
  ELSE << v, t >>

\* Mutation of Widen: int and uint are taken to be 32 bits wide.
WidenTo32(v) ==
  CASE v.k = "int"  -> IntV("int32", v.n)
    [] v.k = "uint" -> IntV("uint32", v.n)
    [] v.k = "bool" -> IntV("int8", IF v.b THEN 1 ELSE 0)
    [] OTHER        -> v

\* int -> int64, uint -> uint64, bool -> int8 0/1.
Widen(v) ==
  CASE v.k = "int"  -> IntV("int64", v.n)
    [] v.k = "uint" -> IntV("uint64", v.n)
    [] v.k = "bool" -> IntV("int8", IF v.b THEN 1 ELSE 0)
    [] OTHER        -> v

KindSize(kind) ==
  CASE kind \in {"int8", "uint8"}   -> 1
    [] kind \in {"int16", "uint16"} -> 2
    [] kind \in {"int32", "uint32"} -> 4
    [] kind \in {"int64", "uint64"} -> 8

\* floor(log2 n) for n >= 1.
RECURSIVE Log2(_)
Log2(n) == IF n < 2 THEN 0 ELSE 1 + Log2(n \div 2)

\* 2^n for any natural n.
RECURSIVE Exp2(_)
Exp2(n) == IF n = 0 THEN 1 ELSE 2 * Exp2(n - 1)

\* math.Float32bits (bits = 32) or the high word of math.Float64bits
\* (bits = 64; the low word is zero) of a natural n < 2^20, written
\* little-endian.
FloatBytes(bits, n) ==
  LET e    == Log2(n)
      frac == IF bits = 32 THEN 23 ELSE 20
      bias == IF bits = 32 THEN 127 ELSE 1023
      high == IF n = 0 THEN 0 ELSE (e + bias) * Exp2(frac) + (n - Exp2(e)) * Exp2(frac - e)
  IN  (IF bits = 32 THEN << >> ELSE LittleEndian(0, 4)) \o LittleEndian(high, 4)

\* The bytes of binary.Write(w.h, binary.LittleEndian, v.Interface()) for
\* a sized integer, a float or a complex64.
BinaryWrite(v) ==
  CASE v.k = "float32"   -> FloatBytes(32, v.n)
    [] v.k = "float64"   -> FloatBytes(64, v.n)
    [] v.k = "complex64" -> FloatBytes(32, v.re) \o FloatBytes(32, v.im)
    [] OTHER             -> LittleEndian(v.n, KindSize(v.k))

\* binary.Write of the number visitOptional hands it for a payload x:
\* int, uint and uintptr converted to 64 bits, the rest at its own width.
OptionalNumberBytes(x) ==
  CASE x.k \in {"int", "uint", "uintptr"} -> LittleEndian(x.n, 8)
    [] x.k = "complex128" -> FloatBytes(64, x.re) \o FloatBytes(64, x.im)
    [] OTHER              -> BinaryWrite(x)

\* oi.OrElse(0) == 0.
OptionalNumberIsZero(x) ==
  IF x.k \in ComplexKinds THEN x.re = 0 /\ x.im = 0 ELSE x.n = 0

ErrUnsupportedOptional(typeName) ==
  [e |-> "unsupported optional type", typeName |-> typeName]

\* func (w *walker) visitOptional(v reflect.Value, typeName string) error
VisitOptional(w, v, typeName, h) ==
  LET x == OrElse(v, OptionalZero(typeName))
  IN  CASE typeName = Utf8("String") ->
             IF ~Present(v) /\ ~w.opts.ZeroNil THEN Ok(h \o Utf8("nil"))
             ELSE Ok(h \o Utf8("string") \o x.s)
        [] typeName = Utf8("Error") ->
             IF ~Present(v) /\ ~w.opts.ZeroNil THEN Ok(h \o Utf8("nil"))
             ELSE Ok(h \o Utf8("error") \o x.s)
        [] typeName = Utf8("Bool") ->
             IF w.opts.IgnoreZeroValue /\ ~x.b THEN Ok(h)
             ELSE IF ~Present(v) /\ w.opts.ZeroNil THEN Ok(h \o Utf8("false"))
             ELSE IF Present(v) THEN Ok(h \o (IF x.b THEN Utf8("true") ELSE Utf8("false")))
             ELSE Ok(h \o Utf8("nil"))
        [] typeName \in { Utf8("Int8"), Utf8("Byte"), Utf8("Int16"), Utf8("Int32"), Utf8("Rune"), Utf8("Int64"),
                          Utf8("Int"), Utf8("Uint8"), Utf8("Uint16"), Utf8("Uint32"), Utf8("Uint64"), Utf8("Uint"),
                          Utf8("Float32"), Utf8("Float64"), Utf8("Complex64"), Utf8("Complex128"),
                          Utf8("Uintptr") } ->
             IF w.opts.ZeroNil /\ ~Present(v)
             THEN Ok(h \o OptionalNumberBytes(OptionalZero(typeName)))
             ELSE IF w.opts.IgnoreZeroValue /\ OptionalNumberIsZero(x) THEN Ok(h)
             ELSE IF ~Present(v) THEN Ok(h \o Utf8("nil"))
             ELSE Ok(h \o OptionalNumberBytes(x))
        [] OTHER -> Fail(h, ErrUnsupportedOptional(typeName))

RECURSIVE Visit(_, _, _, _)
RECURSIVE VisitElems(_, _, _, _)
RECURSIVE VisitMap(_, _, _, _)
RECURSIVE MapHashes(_, _, _, _, _, _)
RECURSIVE VisitStruct(_, _, _)
RECURSIVE VisitFields(_, _, _, _)
RECURSIVE VisitSlice(_, _, _, _)
RECURSIVE SetHashes(_, _, _, _)
RECURSIVE hashValue(_, _, _)

\* func (w *walker) visit(v reflect.Value, ctx *visitCtx) error
Visit(w, v, ctx, h) ==
  LET u  == Unwrap(v, IntV("int", 0), w.opts.ZeroNil)
      v1 == IF u[1].k = "invalid" THEN u[2] ELSE u[1]
      v2 == Widen(v1)
  IN  IF v2.k \in NumericKinds
      THEN IF v2.k = "uintptr" THEN Fail(h, ErrBinaryWrite(v2.k))
           ELSE Ok(h \o BinaryWrite(v2))
      ELSE IF v2.k = "struct" /\ TypeOf(v2) = timeType THEN Ok(h \o MarshalBinary(v2))
      ELSE CASE v2.k = "array"  -> VisitElems(w, v2.elems, 1, h)
             [] v2.k = "map"    -> VisitMap(w, v2, ctx, h)
             [] v2.k = "struct" -> VisitStruct(w, v2, h)
             [] v2.k = "slice"  -> VisitSlice(w, v2, ctx, h)
             [] v2.k = "string" -> Ok(h \o v2.s)
             [] OTHER           -> Fail(h, ErrUnknownKind(v2.k))

\* for i := 0; i < l; i++ { if err := w.visit(v.Index(i), nil); ... }
VisitElems(w, elems, i, h) ==
  IF i > Len(elems) THEN Ok(h)
  ELSE LET r == Visit(w, elems[i], NilCtx, h)
       IN  IF r.err # NilErr THEN r ELSE VisitElems(w, elems, i + 1, r.h)

\* visitMap's loop over v.MapKeys(): the key and value digests gathered,
\* or the first error.
MapHashes(w, entries, i, ctx, keyHashes, valueHashes) ==
  IF i > Len(entries)
  THEN [err |-> NilErr, keyHashes |-> keyHashes, valueHashes |-> valueHashes]
  ELSE LET key  == entries[i][1]
           val  == entries[i][2]
           inc  == IF ~ctx.isnil /\ ctx.Struct.k = "struct"
                   THEN ctx.Struct.impl.includableMap
                   ELSE NoImpl.includableMap
           kres == hashValue(key, w.format, w.opts)
           vres == hashValue(val, w.format, w.opts)
           stop(e) == [err |-> e, keyHashes |-> keyHashes, valueHashes |-> valueHashes]
       IN  IF inc.has /\ key \in inc.fail THEN stop(ErrHook("HashIncludeMap"))
           ELSE IF inc.has /\ key \in inc.skip
             THEN MapHashes(w, entries, i + 1, ctx, keyHashes, valueHashes)
           ELSE IF kres.err # NilErr THEN stop(kres.err)
           ELSE IF vres.err # NilErr THEN stop(vres.err)
           ELSE MapHashes(w, entries, i + 1, ctx,
                          Append(keyHashes, kres.sum), Append(valueHashes, vres.sum))

\* A variant of VisitMap that binds each value to its key: the digest
\* of an entry is its key digest followed by its value digest, and the
\* entry digests are written in sorted order.
VisitMapPaired(w, v, ctx, h) ==
  LET r == MapHashes(w, v.entries, 1, ctx, << >>, << >>)
  IN  IF r.err # NilErr THEN Fail(h, r.err)
      ELSE Ok(h \o Concat(SortHashes([i \in 1..Len(r.keyHashes) |->
                                        r.keyHashes[i] \o r.valueHashes[i]])))

\* func (w *walker) visitMap(v reflect.Value, opts *visitCtx) error
VisitMap(w, v, ctx, h) ==
  LET r == MapHashes(w, v.entries, 1, ctx, << >>, << >>)
  IN  IF r.err # NilErr THEN Fail(h, r.err)
      ELSE Ok(h \o Concat(SortHashes(r.keyHashes)) \o Concat(SortHashes(r.valueHashes)))

\* visitStruct's loop over the fields, from field i on.
VisitFields(w, v, i, h) ==
  IF i > Len(v.fields) THEN Ok(h)
  ELSE LET f      == v.fields[i]
           tag    == TagGet(f.tags, w.tag)
           asText == tag = "string" \/ w.opts.UseStringer
           impl   == Stringer(f.v)
           innerV == IF asText /\ impl.ok THEN StringV(impl.s) ELSE f.v
           inc    == v.impl.includable
           flags  == IF tag = "set" THEN visitFlagSet ELSE 0
           r1     == Visit(w, StringV(f.name), NilCtx, h)
           r2     == Visit(w, innerV, VisitCtx(flags, v, f.name), r1.h)
       IN  IF ~f.exported THEN VisitFields(w, v, i + 1, h)
           ELSE IF Ignored(tag) THEN VisitFields(w, v, i + 1, h)
           ELSE IF w.opts.IgnoreZeroValue /\ IsZero(f.v) THEN VisitFields(w, v, i + 1, h)
           ELSE IF asText /\ impl.ok /\ impl.panics THEN Fail(h, Panic("String"))
           ELSE IF asText /\ ~impl.ok /\ tag = "string" THEN Fail(h, ErrNotStringer(f.name))
           ELSE IF inc.has /\ f.name \in inc.fail THEN Fail(h, ErrHook("HashInclude"))
           ELSE IF inc.has /\ f.name \in inc.skip THEN VisitFields(w, v, i + 1, h)
           ELSE IF r1.err # NilErr THEN r1
           ELSE IF r2.err # NilErr THEN r2
           ELSE VisitFields(w, v, i + 1, r2.h)

\* func (w *walker) visitStruct(v reflect.Value) error
VisitStruct(w, v, h) ==
  IF v.impl.hashable.has
  THEN IF v.impl.hashable.err THEN Fail(h, ErrHook("Hash"))
       ELSE Ok(h \o Decimal(v.impl.hashable.h))
  ELSE IF PkgPath(v) = OptionalPkg THEN VisitOptional(w, v, v.name, h)
  ELSE LET r == Visit(w, StringV(v.name), NilCtx, h)
       IN  IF r.err # NilErr THEN r ELSE VisitFields(w, v, 1, r.h)

\* visitSlice's set branch, from element i on: the digests appended so
\* far when the loop runs to its end, or the early return.
\*   if h, err := hashValue(...); err != nil { hashes = append(hashes, h) }
\*   else { return err }
SetHashes(w, elems, i, hashes) ==
  IF i > Len(elems) THEN [returned |-> FALSE, hashes |-> hashes, err |-> NilErr]
  ELSE LET r == hashValue(elems[i], w.format, w.opts)
       IN  IF r.err.e = "panic" THEN [returned |-> TRUE, hashes |-> hashes, err |-> r.err]
           ELSE IF r.err # NilErr THEN SetHashes(w, elems, i + 1, Append(hashes, r.sum))
           ELSE [returned |-> TRUE, hashes |-> hashes, err |-> r.err]

\* func (w *walker) visitSlice(v reflect.Value, ctx *visitCtx) error
VisitSlice(w, v, ctx, h) ==
  LET set == IsSet(ctx)
      r   == SetHashes(w, v.elems, 1, << >>)
      sorted == SortHashes(r.hashes)
  IN  IF ~set THEN VisitElems(w, v.elems, 1, h)
      ELSE IF r.returned THEN [h |-> h, err |-> r.err]
      ELSE Ok(h \o Concat([j \in 1..Len(sorted) |-> FormatBytesD(sorted[j])]))

\* func hashValue(v reflect.Value, format Format, opts *HashOptions) ([]byte, error)
\* A panic in the walk unwinds through it: nothing is returned.
hashValue(v, format, opts) ==
  LET tagName == IF opts.TagName = "" THEN "hash" ELSE opts.TagName
      w == [format |-> format, tag |-> tagName, opts |-> opts]
      r == Visit(w, v, NilCtx, << >>)
  IN  IF r.err.e = "panic" THEN [sum |-> NilBytes, err |-> r.err]
      ELSE [sum |-> MD5Sum(r.h), err |-> r.err]

\* func Hash(v any, format Format, opts *HashOptions) ([]byte, error)
Hash(v, format, opts) ==
  IF format <= formatInvalid \/ format >= formatMax
  THEN [sum |-> NilBytes, err |-> ErrFormat]
  ELSE hashValue(v, format, IF opts = NilOpts THEN DefaultOpts ELSE opts)

\* ---------------------------------------------------------------------
\* The values the calls are made on.
\* ---------------------------------------------------------------------

\* Longest slice, array or map generated.
MaxLen == 3
\* Largest integer generated (the smallest is -1).
MaxInt == 2
\* Largest format selector tried (formatMax and beyond are invalid).
MaxFormat == 3

NoTags       == << >>
HashTag(t)   == [hash |-> t]
AltTag(t)    == [alt |-> t]

TagOpts(name)   == [DefaultOpts EXCEPT !.TagName = name]
ZeroNilOpts     == [DefaultOpts EXCEPT !.ZeroNil = TRUE]
IgnoreZeroOpts  == [DefaultOpts EXCEPT !.IgnoreZeroValue = TRUE]
SlicesAsSetsOpts == [DefaultOpts EXCEPT !.SlicesAsSets = TRUE]
UseStringerOpts == [DefaultOpts EXCEPT !.UseStringer = TRUE]


\* type structB struct { A int; B bool }  (hashstructure_golden_test.go)
StructB(a, b) ==
  StructV(Utf8("structB"), << FieldV(Utf8("A"), NoTags, IntV("int", a)),
                          FieldV(Utf8("B"), NoTags, BoolV(b)) >>)

\* type R struct { S string }
StructR(s) == StructV(Utf8("R"), << FieldV(Utf8("S"), NoTags, StringV(s)) >>)

\* type T struct { A int; B complex128 }: hashing it fails at B, after
\* "T", "A" and A's bytes were written.
StructT(a) ==
  StructV(Utf8("T"), << FieldV(Utf8("A"), NoTags, IntV("int", a)),
                    FieldV(Utf8("B"), NoTags, ComplexV("complex128", 1, 2)) >>)

\* type G struct { A int `hash:"string"` }: A is no fmt.Stringer.
StructG(a) == StructV(Utf8("G"), << FieldV(Utf8("A"), HashTag("string"), IntV("int", a)) >>)

\* A struct whose Hash() hook fails.
StructHookErr ==
  StructImpl(Utf8("T"), << >>, [NoImpl EXCEPT !.hashable = [has |-> TRUE, h |-> 0, err |-> TRUE]])

\* The i-th of some pairwise distinct texts: "a", "aa", "b", "ab", ...
TextAt(i) ==
  CASE i = 1 -> << 97 >>
    [] i = 2 -> << 97, 97 >>
    [] i = 3 -> << 98 >>
    [] OTHER -> << 97, 94 + i >>

\* The i-th of some pairwise distinct R records: R{"a"}, R{"aRSa"}, R{"b"}, ...
RecTextAt(i) ==
  CASE i = 2 -> StructR(<< 97, 82, 83, 97 >>)
    [] OTHER -> StructR(TextAt(i))

\* The i-th element of a pool of pairwise distinct values of one type.
Pools == {"int", "int8", "uint16", "string", "structB", "R", "ptr"}
IntPools == {"int", "int8", "uint16"}
PoolAt(pool, i) ==
  CASE pool \in IntPools  -> IntV(pool, i - 1)
    [] pool = "string"    -> StringV(TextAt(i))
    [] pool = "structB"   -> StructB(i, i % 2 = 0)
    [] pool = "R"         -> RecTextAt(i)
    [] pool = "ptr"       -> PtrV(IntV("int", i))
    \* elements whose hashing fails, each after different bytes
    [] pool = "failing"   -> StructT(i)
    \* []any holding values that hash and values that do not
    [] pool = "mixed"     -> IfaceV(IF i % 2 = 0 THEN StructT(i) ELSE IntV("int", i))

PoolSeq(pool, n) == [i \in 1..n |-> PoolAt(pool, i)]

Perms(n) == {p \in [1..n -> 1..n] : \A i, j \in 1..n : p[i] = p[j] => i = j}
Identity(n) == [i \in 1..n |-> i]
Reorder(seq, p) == [i \in 1..Len(seq) |-> seq[p[i]]]
\* The rearrangements applied to an order: every exchange of two places
\* and the two shifts by one place.  Up to three places these are all
\* the permutations but the identity.
Moves(n) ==
  ({ [i \in 1..n |-> IF i = a THEN b ELSE IF i = b THEN a ELSE i] : a, b \in 1..n }
   \cup { [i \in 1..n |-> (i % n) + 1], [i \in 1..n |-> ((i + n - 2) % n) + 1] })
  \ {Identity(n)}
\* p before q, lexicographically.
PermLess(p, q) ==
  \E i \in DOMAIN p : p[i] < q[i] /\ \A j \in 1..(i - 1) : p[j] = q[j]

\* One call scenario: the relation `rel` between the two values hashed,
\* the values, and the options and format both calls are made with.
Scenario(rel, a, b, opts, format) ==
  [rel |-> rel, a |-> a, b |-> b, opts |-> opts, format |-> format]

\* Where a value sits in the value passed to Hash.
Places == {"top", "field", "value", "elem"}
Place(where, v) ==
  CASE where = "top"   -> v
    [] where = "field" -> StructV(Utf8("S"), << FieldV(Utf8("F"), NoTags, v) >>)
    [] where = "value" -> MapV(<< << StringV(TextAt(1)), v >> >>)
    [] where = "elem"  -> SliceV(<< v >>)

\* map[string]any and map[int]any of n entries; in the "bad" maps the
\* second value is a complex128.
MapKeyAt(keys, i) == IF keys = "string" THEN StringV(TextAt(i)) ELSE IntV("int", i)
MapValAt(vals, i) ==
  CASE vals = "bad" /\ i = 2 -> ComplexV("complex128", 1, 2)
    [] i % 3 = 1 -> IntV("int", i)
    [] i % 3 = 2 -> StructB(i, TRUE)
    [] OTHER     -> StringV(TextAt(i))
MapEntries(keys, vals, n) ==
  [i \in 1..n |-> << MapKeyAt(keys, i), IfaceV(MapValAt(vals, i)) >>]

\* The same map under two iteration orders.
MapPermScenarios ==
  UNION {
    { Scenario("mapPerm",
               Place(where, MapV(MapEntries(keys, vals, n))),
               Place(where, MapV(Reorder(MapEntries(keys, vals, n), p))),
               DefaultOpts, FormatMD5)
      : p \in Moves(n),
        where \in (CASE keys = "int" -> {"top"}
                     [] vals = "bad" -> {"top", "field"}
                     [] OTHER        -> Places) }
    : n \in 2..MaxLen, keys \in {"string", "int"}, vals \in {"good", "bad"} }

\* type S struct { X <ignored>; A int } and the same with A first.  The
\* ignored field is tagged under the tag name the options select.
IgnoreTagging ==
  { [tags |-> HashTag("ignore"), opts |-> DefaultOpts],
    [tags |-> HashTag("-"),      opts |-> DefaultOpts],
    [tags |-> HashTag("ignore"), opts |-> TagOpts("hash")],
    [tags |-> AltTag("ignore"),  opts |-> TagOpts("alt")],
    [tags |-> AltTag("-"),       opts |-> [TagOpts("alt") EXCEPT !.IgnoreZeroValue = TRUE]] }
IgnoredValues ==
  { << IntV("int", x), IntV("int", y) >> : x, y \in 0..MaxInt }
  \cup { << StringV(TextAt(i)), StringV(TextAt(j)) >> : i, j \in 1..MaxLen }
  \cup { << IfaceV(IntV("int", 1)), IfaceV(ComplexV("complex128", 1, 2)) >>,
         << NilIface, IfaceV(StructG(1)) >>,
         << NilPtr(StructB(0, FALSE)), PtrV(StructB(1, TRUE)) >> }
WithIgnored(first, tags, x, a) ==
  IF first
  THEN StructV(Utf8("S"), << FieldV(Utf8("X"), tags, x), FieldV(Utf8("A"), NoTags, IntV("int", a)) >>)
  ELSE StructV(Utf8("S"), << FieldV(Utf8("A"), NoTags, IntV("int", a)), FieldV(Utf8("X"), tags, x) >>)
IgnoreScenarios ==
  { Scenario("ignoreDiff",
             Place(where, WithIgnored(first, tg.tags, xy[1], 1)),
             Place(where, WithIgnored(first, tg.tags, xy[2], 1)),
             tg.opts, FormatMD5)
    : tg \in IgnoreTagging, first \in BOOLEAN, where \in {"top", "elem"},
      xy \in {z \in IgnoredValues : z[1] # z[2]} }

\* type S struct { F []E `hash:"set"` }
WithSet(tags, elems) == StructV(Utf8("S"), << FieldV(Utf8("F"), tags, SliceV(elems)) >>)
SetTagging ==
  { [tags |-> HashTag("set"), opts |-> DefaultOpts],
    [tags |-> AltTag("set"),  opts |-> TagOpts("alt")],
    [tags |-> HashTag("set"), opts |-> SlicesAsSetsOpts] }
SetPools == {"int", "string", "structB", "failing", "mixed"}
\* A set-tagged slice and a reordering of it.
SetPermScenarios ==
  UNION {
    { Scenario("setPerm",
               WithSet(tg.tags, PoolSeq(pool, n)),
               WithSet(tg.tags, Reorder(PoolSeq(pool, n), p)),
               tg.opts, FormatMD5)
      : p \in Moves(n), tg \in SetTagging }
    : n \in 2..MaxLen, pool \in SetPools }

\* The ascending int sequences of at most two elements: the multisets.
Multisets ==
  {<< >>} \cup { << x >> : x \in 0..MaxInt }
  \cup { << x, y >> : x \in 0..MaxInt, y \in 0..MaxInt }
AsInts(seq) == [i \in 1..Len(seq) |-> IntV("int", seq[i])]
\* Two set-tagged slices that differ in their multiset of elements.
SetMultisetScenarios ==
  { Scenario("setMultiset", WithSet(HashTag("set"), AsInts(ab[1])),
             WithSet(HashTag("set"), AsInts(ab[2])), DefaultOpts, FormatMD5)
    : ab \in { z \in Multisets \X Multisets :
                 /\ \A i \in 1..(Len(z[1]) - 1) : z[1][i] <= z[1][i + 1]
                 /\ \A i \in 1..(Len(z[2]) - 1) : z[2][i] <= z[2][i + 1]
                 /\ z[1] # z[2]
                 /\ Len(z[1]) <= Len(z[2]) } }

\* A slice without the set tag, of pairwise distinct elements, under two
\* different orders; at the top level or in an untagged field.
SlicePermScenarios ==
  UNION {
    { Scenario("slicePerm",
               Place(wo[1], SliceV(Reorder(PoolSeq(pool, n), pq[1]))),
               Place(wo[1], SliceV(Reorder(PoolSeq(pool, n), pq[2]))),
               wo[2], FormatMD5)
      : pq \in { z \in { << q, Reorder(q, p) >> : q \in Perms(n), p \in Moves(n) }
                 : PermLess(z[1], z[2]) },
        wo \in (IF pool \in {"int", "string"}
                THEN {"top", "field"} \X {DefaultOpts, SlicesAsSetsOpts}
                ELSE {<< "top", DefaultOpts >>}) }
    : n \in 2..MaxLen, pool \in Pools }

\* type S struct { P *E }: P nil, and P pointing to E's zero value.
PointedTo ==
  { IntV("int", 0), IntV("int8", 0), IntV("uint32", 0), BoolV(FALSE), StringV(<< >>),
    StructB(0, FALSE), NilSlice, NilMap, ArrayV(<< IntV("int", 0), IntV("int", 0) >>),
    NilPtr(IntV("int", 0)), NilPtr(StructB(0, FALSE)) }
WithPtr(ptr) == StructV(Utf8("S"), << FieldV(Utf8("P"), NoTags, ptr) >>)
NilZeroScenarios ==
  { Scenario("nilZero", Place(where, WithPtr(NilPtr(z))), Place(where, WithPtr(PtrV(z))),
             opts, FormatMD5)
    : z \in PointedTo, where \in {"top", "elem"},
      opts \in {ZeroNilOpts, [ZeroNilOpts EXCEPT !.UseStringer = TRUE]} }

\* The same number as two integer types of one family.
WidthScenarios ==
  { Scenario("width", Place(where, IntV(kk[1], n)), Place(where, IntV(kk[2], n)),
             DefaultOpts, FormatMD5)
    : kk \in { z \in (SignedKinds \X SignedKinds) \cup (UnsignedKinds \X UnsignedKinds)
                 : z[1] # z[2] },
      n \in 0..MaxInt, where \in {"top", "field"} }
  \cup
  { Scenario("width", IntV(kk[1], -1), IntV(kk[2], -1), DefaultOpts, FormatMD5)
    : kk \in { z \in SignedKinds \X SignedKinds : z[1] # z[2] } }

\* Values whose hashing fails.
Failing ==
  { ComplexV("complex128", 1, 2), OtherV("chan"), StructT(1), StructG(1), StructHookErr }
\* A collection with a failing element among n, at position i.
Nest(how, bad, n, i) ==
  LET elems == [j \in 1..n |-> IfaceV(IF j = i THEN bad ELSE IntV("int", j))]
  IN  CASE how = "key"   -> MapV([j \in 1..n |-> << elems[j], IntV("int", j) >>])
        [] how = "value" -> MapV([j \in 1..n |-> << IntV("int", j), elems[j] >>])
        [] how = "array" -> ArrayV(elems)
        [] how = "slice" -> SliceV(elems)
        [] how = "set"   -> WithSet(HashTag("set"), elems)
\* A collection with a failing element, and that element alone.
NestedErrScenarios ==
  UNION {
    { Scenario("nestedErr", Nest(how, bad, n, i), bad, DefaultOpts, FormatMD5)
      : i \in {1, n}, bad \in Failing }
    : n \in 1..MaxLen, how \in {"key", "value", "array", "slice", "set"} }

\* Calls with a format that is not FormatMD5.
BadFormatScenarios ==
  { Scenario("badFormat", v, v, opts, f)
    : v \in {Invalid, IntV("int", 1), StructB(1, TRUE), OtherV("chan")},
      opts \in {NilOpts, DefaultOpts},
      f \in (0..MaxFormat) \ {FormatMD5} }

\* hashstructure_golden_test.go: goldenStruct, its four values and the
\* digests TestGoldenStructHashes expects of them (opts nil).
\*   type goldenStruct struct {
\*     UUID string `hash:"ignore"`; AMap map[string]structB
\*     ASlice []int; AString string; APtr *structB }
GoldenStruct(uuid, amap, aslice, astring, aptr) ==
  StructV(<< 103, 111, 108, 100, 101, 110, 83, 116, 114, 117, 99, 116 >>,
          << FieldV(<< 85, 85, 73, 68 >>, HashTag("ignore"), StringV(uuid)),
             FieldV(<< 65, 77, 97, 112 >>, NoTags, amap),
             FieldV(<< 65, 83, 108, 105, 99, 101 >>, NoTags, aslice),
             FieldV(<< 65, 83, 116, 114, 105, 110, 103 >>, NoTags, StringV(astring)),
             FieldV(<< 65, 80, 116, 114 >>, NoTags, aptr) >>)

\* "bar", "baz", "bat", "1", "2"

GoldenSlice ==
  SliceV(<< IntV("int", 5), IntV("int", 42), IntV("int", -13), IntV("int", 0),
            IntV("int", 0), IntV("int", 24) >>)

goldenStructA ==
  GoldenStruct(<< 70, 111, 111, 98, 97, 114 >>,
               MapV(<< << StringV(Utf8("bar")), StructB(2, TRUE) >>, << StringV(Utf8("baz")), StructB(-5, FALSE) >>,
                       << StringV(Utf8("bat")), StructB(0, FALSE) >> >>),
               GoldenSlice, << 104, 101, 108, 108, 111 >>, PtrV(StructB(4, TRUE)))

goldenStructB ==
  GoldenStruct(<< 68, 73, 70, 70, 69, 82, 69, 78, 84, 95, 84, 72, 65, 78, 95, 65, 66, 79, 86, 69 >>,
               MapV(<< << StringV(Utf8("bar")), StructB(2, TRUE) >>, << StringV(Utf8("bat")), StructB(0, FALSE) >>,
                       << StringV(Utf8("baz")), StructB(-5, FALSE) >> >>),
               GoldenSlice, << 104, 101, 108, 108, 111 >>, PtrV(StructB(4, TRUE)))

goldenStructC ==
  GoldenStruct(<< >>, NilMap, NilSlice, << >>, NilPtr(StructB(0, FALSE)))

goldenStructD ==
  GoldenStruct(<< 117, 117, 105, 100 >>,
               MapV(<< << StringV(Utf8("bar")), StructB(2, TRUE) >>, << StringV(Utf8("bat")), StructB(0, FALSE) >>,
                       << StringV(Utf8("baz")), StructB(-5, FALSE) >>, << StringV(Utf8("1")), StructB(0, FALSE) >>,
                       << StringV(Utf8("2")), StructB(0, FALSE) >> >>),
               NilSlice, << >>, NilPtr(StructB(0, FALSE)))

goldenHashes ==
  << << 115, 205, 154, 57, 182, 201, 82, 233, 17, 152, 239, 179, 145, 124, 147, 33 >>,
     << 115, 205, 154, 57, 182, 201, 82, 233, 17, 152, 239, 179, 145, 124, 147, 33 >>,
     << 54, 216, 215, 148, 238, 156, 123, 242, 153, 51, 225, 50, 219, 99, 82, 194 >>,
     << 105, 71, 150, 88, 101, 21, 32, 136, 53, 28, 235, 133, 95, 114, 36, 110 >> >>

GoldenScenarios ==
  { Scenario("golden", goldenStructA, goldenStructB, NilOpts, FormatMD5),
    Scenario("golden", goldenStructC, goldenStructD, NilOpts, FormatMD5) }

\* The optional types and, for each, some payloads, the zero value among
\* them.
OptionalKinds ==
  { Utf8("String"), Utf8("Error"), Utf8("Bool"), Utf8("Int8"), Utf8("Byte"), Utf8("Int16"), Utf8("Int32"), Utf8("Rune"),
    Utf8("Int64"), Utf8("Int"), Utf8("Uint8"), Utf8("Uint16"), Utf8("Uint32"), Utf8("Uint64"), Utf8("Uint"),
    Utf8("Float32"), Utf8("Float64"), Utf8("Complex64"), Utf8("Complex128"), Utf8("Uintptr") }
OptionalPayloads(typeName) ==
  LET z == OptionalZero(typeName)
  IN  CASE z.k = "string" -> { StringV(<< >>), StringV(TextAt(1)), StringV(Utf8("nil")) }
        [] z.k = "bool"   -> { BoolV(FALSE), BoolV(TRUE) }
        [] z.k \in {"complex64", "complex128"} ->
             { ComplexV(z.k, re, im) : re, im \in 0..1 }
        [] OTHER          -> { [z EXCEPT !.n = n] : n \in 0..MaxInt }

\* An absent optional value and a present one of the same type, ZeroNil
\* off, IgnoreZeroValue off and on.
OptionalNilScenarios ==
  UNION {
    { Scenario("optionalNil", Place(where, None(typeName)), Place(where, Some(typeName, x)),
               opts, FormatMD5)
      : x \in OptionalPayloads(typeName), where \in {"top", "field"},
        opts \in {DefaultOpts, IgnoreZeroOpts} }
    : typeName \in OptionalKinds }

\* optional_test.go: optionalStruct, outerStruct and the two values
\* TestOptional hashes (opts nil).
OptionalStruct(i, s, bl) ==
  StructV(Utf8("optionalStruct"),
          << FieldV(Utf8("Int"), NoTags, i), FieldV(Utf8("String"), NoTags, s),
             FieldV(Utf8("Bool"), NoTags, bl) >>)
OuterStruct(n, inner) ==
  StructV(Utf8("outerStruct"),
          << FieldV(Utf8("Int"), NoTags, IntV("int", n)),
             FieldV(Utf8("InnerStruct"), NoTags, inner) >>)
optionalS1 ==
  PtrV(OuterStruct(42, PtrV(OptionalStruct(Some(Utf8("Int"), IntV("int", 3)),
                                          Some(Utf8("String"), StringV(Utf8("hello"))),
                                          None(Utf8("Bool"))))))
optionalS2 ==
  PtrV(OuterStruct(42, PtrV(OptionalStruct(Some(Utf8("Int"), IntV("int", 2)),
                                          None(Utf8("String")),
                                          Some(Utf8("Bool"), BoolV(FALSE))))))
OptionalTestScenarios ==
  { Scenario("optionalTest", optionalS1, optionalS2, NilOpts, FormatMD5) }

\* The values of a map for re-pairing: as in MapValAt, or ("dup") ints
\* with repetitions.
PairValAt(vals, i) == IF vals = "dup" THEN IntV("int", i \div 2) ELSE MapValAt(vals, i)
\* The entries MapKeyAt(keys, i) -> PairValAt(vals, p[i]).
PairEntries(keys, vals, p) ==
  [i \in 1..Len(p) |-> << MapKeyAt(keys, i), IfaceV(PairValAt(vals, p[i])) >>]
\* Two maps with the same keys and the same values, paired differently.
MapPairScenarios ==
  UNION {
    { Scenario("mapPair",
               Place(where, MapV(PairEntries(keys, vals, Identity(n)))),
               Place(where, MapV(PairEntries(keys, vals, p))),
               DefaultOpts, FormatMD5)
      : p \in { q \in Moves(n) :
                  PairEntries(keys, vals, q) # PairEntries(keys, vals, Identity(n)) },
        where \in (IF keys = "string" /\ vals = "good" THEN {"top", "field"} ELSE {"top"}) }
    : n \in 2..MaxLen, keys \in {"string", "int"}, vals \in {"good", "bad", "dup"} }

\* type St struct{}; func (St) String() string { return "str" }
St == StructImpl(Utf8("St"), << >>, [NoImpl EXCEPT !.stringer = [has |-> TRUE, s |-> Utf8("str")]])

\* Numbers of the kinds binary.Write is handed as they are, complex128,
\* chan and func values, and times: the first seconds of year 1 and
\* days around the ends of February, of a year and of a leap cycle.
KindValues ==
  { FloatV(kd, n) : kd \in FloatKinds, n \in 0..MaxInt }
  \cup { ComplexV(kd, re, im) : kd \in ComplexKinds, re \in 0..1, im \in 0..1 }
  \cup { IntV("uintptr", n) : n \in 0..MaxInt }
  \cup { OtherV("chan"), NilOther("chan"), OtherV("func"), NilOther("func") }
  \cup { TimeV(sec) : sec \in 0..MaxInt }
  \cup { TimeV(day * 86400 + 3661 * MaxInt)
         : day \in {58, 59, 364, 365, 1154, 1155, 1460, 1461, 24854} }

\* What a field F of S holds: the values above, and St behind the
\* pointers and interfaces a field can hold it by.
FieldValues ==
  KindValues
  \cup { St, PtrV(St), NilPtr(St), PtrV(PtrV(St)), IfaceV(St), IfaceV(PtrV(St)),
         IfaceV(NilPtr(St)), NilIface, IfaceV(TimeV(1)), PtrV(TimeV(1)),
         IfaceV(IntV("int", 1)), StructB(1, TRUE), StructT(1), StructT(0) }

\* A value hashed directly or as the field of a struct, and a pointer to
\* the same.
KindScenarios ==
  { Scenario("kinds", v, PtrV(v), o, FormatMD5)
    : v \in KindValues, o \in {DefaultOpts, ZeroNilOpts} }
  \cup { Scenario("kinds", StructV(Utf8("S"), << FieldV(Utf8("F"), tags, x) >>),
                  PtrV(StructV(Utf8("S"), << FieldV(Utf8("F"), tags, x) >>)), o, FormatMD5)
         : x \in FieldValues, tags \in {NoTags, HashTag("string")},
           o \in {DefaultOpts, UseStringerOpts, IgnoreZeroOpts} }

Scenarios ==
  MapPermScenarios \cup IgnoreScenarios \cup SetPermScenarios \cup SetMultisetScenarios
  \cup SlicePermScenarios \cup NilZeroScenarios \cup WidthScenarios
  \cup NestedErrScenarios \cup BadFormatScenarios \cup GoldenScenarios
  \cup OptionalNilScenarios \cup OptionalTestScenarios \cup MapPairScenarios
  \cup KindScenarios

\* ---------------------------------------------------------------------
\* The calls: Hash on the first value, then on the second.
\* ---------------------------------------------------------------------
VARIABLES rel, argA, argB, callOpts, callFormat, resA, resB, pc

vars == << rel, argA, argB, callOpts, callFormat, resA, resB, pc >>

\* No call made yet.
Pending == [sum |-> NilBytes, err |-> [e |-> "pending"]]

Init ==
  \E sc \in Scenarios :
    /\ rel = sc.rel
    /\ argA = sc.a
    /\ argB = sc.b
    /\ callOpts = sc.opts
    /\ callFormat = sc.format
    /\ resA = Pending
    /\ resB = Pending
    /\ pc = "first"

CallHashA ==
  /\ pc = "first"
  /\ resA' = Hash(argA, callFormat, callOpts)
  /\ pc' = "second"
  /\ UNCHANGED << rel, argA, argB, callOpts, callFormat, resB >>

CallHashB ==
  /\ pc = "second"
  /\ resB' = Hash(argB, callFormat, callOpts)
  /\ pc' = "done"
  /\ UNCHANGED << rel, argA, argB, callOpts, callFormat, resA >>

Next == CallHashA \/ CallHashB

Spec == Init /\ [][Next]_vars

\* ---------------------------------------------------------------------
\* Properties.
\* ---------------------------------------------------------------------
Done == pc = "done"

\* The value a "field" or "elem" placement wraps (the value itself at the
\* top level).
Placed(v) ==
  CASE v.k = "struct" /\ v.name = Utf8("S") /\ Len(v.fields) = 1 -> v.fields[1].v
    [] OTHER -> v

\* TestGoldenStructHashes: the four golden values hash without error to
\* the digests the repository's test expects.
GoldenHashesMatch ==
  (Done /\ rel = "golden") =>
    /\ resA.err = NilErr /\ resB.err = NilErr
    /\ \/ argA = goldenStructA /\ resA.sum = goldenHashes[1] /\ resB.sum = goldenHashes[2]
       \/ argA = goldenStructC /\ resA.sum = goldenHashes[3] /\ resB.sum = goldenHashes[4]

\* C1: a map hashes to the same digest under any two iteration orders,
\* wherever it sits (top level, record field, map value, slice element).
C1_MapOrderIndependent ==
  (Done /\ rel = "mapPerm") => resA.sum = resB.sum

\* A map of several entries, hashed without error under two orders.
C1_Witness ==
  /\ Done /\ rel = "mapPerm" /\ argA # argB
  /\ resA.err = NilErr /\ Len(resA.sum) = 16
  /\ Placed(argA).k = "map" /\ Len(Placed(argA).entries) = MaxLen

\* C2: two records that differ only in a field tagged "ignore" or "-"
\* under the active tag name hash alike (and fail alike).
C2_IgnoredFieldNoInfluence ==
  (Done /\ (rel = "ignoreDiff" \/ (rel = "golden" /\ argA = goldenStructA)))
    => resA = resB

\* Two records with different values in a field tagged "-" under a
\* non-default tag name, both hashed.
C2_Witness ==
  /\ Done /\ rel = "ignoreDiff" /\ argA # argB /\ argA.k = "struct"
  /\ callOpts.TagName = "alt" /\ resA.err = NilErr /\ resB.err = NilErr
  /\ Len(resA.sum) = 16
  /\ \E i \in 1..2 : TagGet(argA.fields[i].tags, "alt") = "-"

\* C3: a record with a set-tagged slice hashes alike under any
\* reordering of the slice.
C3_SetOrderIndependent ==
  (Done /\ rel = "setPerm") => resA = resB

\* A set-tagged slice of MaxLen elements, hashed under two orders.
C3_Witness ==
  /\ Done /\ rel = "setPerm" /\ argA # argB /\ resA.err = NilErr
  /\ Len(argA.fields[1].v.elems) = MaxLen

\* The elements of the slice hashed in a "slicePerm" call.
SliceElems(v) == Placed(v).elems

\* Encoded in a fixed number of bytes: a sized or platform integer, a
\* bool, a non-nil pointer to such a value, or a record without hooks
\* whose fields are all exported, untagged and of such types.
RECURSIVE FixedWidth(_)
FixedWidth(v) ==
  CASE v.k \in SignedKinds \cup UnsignedKinds \cup {"bool"} -> TRUE
    [] v.k = "ptr"    -> ~v.isnil /\ FixedWidth(v.elem)
    [] v.k = "struct" ->
         /\ v.impl = NoImpl
         /\ \A i \in 1..Len(v.fields) :
              /\ v.fields[i].exported /\ v.fields[i].tags = NoTags
              /\ FixedWidth(v.fields[i].v)
    [] OTHER -> FALSE

\* C4 as stated: reordering pairwise distinct elements of a slice that
\* is not marked set-like changes the digest, whatever the element kind.
C4_Original ==
  (Done /\ rel = "slicePerm" /\ ~callOpts.SlicesAsSets) => resA.sum # resB.sum

\* C4 as amended: reordering changes the digest when the elements are
\* pairwise distinct values of one type encoded in a fixed number of
\* bytes.
C4_FixedWidthOrderMatters ==
  (/\ Done /\ rel = "slicePerm"
   /\ \A i \in 1..Len(SliceElems(argA)) :
        /\ FixedWidth(SliceElems(argA)[i])
        /\ ZeroOf(SliceElems(argA)[i]) = ZeroOf(SliceElems(argA)[1]))
    => (resA.err = NilErr /\ resB.err = NilErr /\ resA.sum # resB.sum)

\* A slice of MaxLen distinct ints inside a record field, hashed under
\* two orders.
C4_Witness ==
  /\ Done /\ rel = "slicePerm" /\ argA # argB /\ argA.k = "struct"
  /\ Len(SliceElems(argA)) = MaxLen
  /\ \A i \in 1..MaxLen : SliceElems(argA)[i].k = "int"
  /\ resA.err = NilErr

\* C5: with ZeroNil, a nil pointer field and one pointing to the zero
\* value of its element type both hash, to the same digest.
C5_NilEqualsZero ==
  (Done /\ rel = "nilZero") =>
    (resA.err = NilErr /\ resB.err = NilErr /\ resA.sum = resB.sum)

\* C6: a call that returns an error returns no digest.
C6_NoDigestOnError ==
  Done => /\ (resA.err # NilErr => resA.sum = NilBytes)
          /\ (resB.err # NilErr => resB.sum = NilBytes)

\* C7: with SlicesAsSets every slice hashes alike under any reordering.
C7_SlicesAsSets ==
  (Done /\ rel \in {"slicePerm", "setPerm"} /\ callOpts.SlicesAsSets)
    => resA.sum = resB.sum

\* C8 as stated: the same number hashes alike as any two integer types
\* of one family.
C8_Original ==
  (Done /\ rel = "width") => resA.sum = resB.sum

\* C8 as amended: the same number hashes alike as two integer types of
\* one family exactly when both are written at the same width: int with
\* int64, uint with uint64.
C8_SameWidenedWidth ==
  (Done /\ rel = "width") =>
    /\ resA.err = NilErr /\ resB.err = NilErr
    /\ (resA.sum = resB.sum) <=>
         ({Placed(argA).k, Placed(argB).k} \in {{"int", "int64"}, {"uint", "uint64"}})

\* A negative int and the same int64, hashed.
C8_Witness ==
  /\ Done /\ rel = "width" /\ argA.k = "int" /\ argB.k = "int64" /\ argA.n = -1
  /\ resA.err = NilErr /\ resA.sum = resB.sum

\* C9: a set-tagged slice contributes exactly its elements' digests in
\* sorted order, so records that differ in the multiset of elements hash
\* differently.
C9_SetFeedsSortedDigests ==
  LET \* what the record S{F []E `hash:"set"`} is said to feed its digest:
      \* the type name, the field name, then the elements' digests, sorted
      Expected(v) ==
        v.name \o v.fields[1].name
        \o Concat(SortHashes([i \in 1..Len(v.fields[1].v.elems) |->
                                hashValue(v.fields[1].v.elems[i], FormatMD5, DefaultOpts).sum]))
  IN  (Done /\ rel = "setMultiset") =>
        /\ resA.sum = MD5Sum(Expected(argA))
        /\ resB.sum = MD5Sum(Expected(argB))
        /\ resA.sum # resB.sum

\* C10: when hashing a nested element fails, Hash returns that
\* element's error.
C10_NestedErrorReturned ==
  (Done /\ rel = "nestedErr") => (resB.err # NilErr /\ resA.err = resB.err)

\* TestOptional: the two values hash without error to different digests.
TestOptionalDiffer ==
  (Done /\ rel = "optionalTest") =>
    (resA.err = NilErr /\ resB.err = NilErr /\ resA.sum # resB.sum)

\* The bytes written before an optional value placed in a field of S.
OptionalPrefix(v) == IF v.name = Utf8("S") THEN Utf8("S") \o Utf8("F") ELSE << >>

\* With ZeroNil and IgnoreZeroValue both off, an absent optional value
\* writes "nil" and hashes unlike every present value of its type.
OptionalNilSentinelDefault ==
  (Done /\ rel = "optionalNil" /\ ~callOpts.IgnoreZeroValue) =>
    /\ resA.err = NilErr /\ resB.err = NilErr
    /\ resA.sum = MD5Sum(OptionalPrefix(argA) \o Utf8("nil"))
    /\ resA.sum # resB.sum

\* C11: with ZeroNil off and IgnoreZeroValue off or on, an absent
\* optional value of any supported kind writes the sentinel "nil" and
\* hashes unlike every present value of that kind.
C11_AbsentWritesNilSentinel ==
  (Done /\ rel = "optionalNil") =>
    /\ resA.err = NilErr /\ resB.err = NilErr
    /\ resA.sum = MD5Sum(OptionalPrefix(argA) \o Utf8("nil"))
    /\ resA.sum # resB.sum

\* C12: two maps with the same keys and the same multiset of values
\* hash alike however the values are paired with the keys, because key
\* digests and value digests are sorted and written apart.
C12_PairingNotHashed ==
  (Done /\ rel = "mapPair") => resA = resB

\* A top-level map of MaxLen entries and a re-pairing of it that gives
\* its first key another value, both hashed without error.
C12_Witness ==
  /\ Done /\ rel = "mapPair" /\ argA.k = "map" /\ Len(argA.entries) = MaxLen
  /\ argA.entries[1][1] = argB.entries[1][1]
  /\ argA.entries[1][2] # argB.entries[1][2]
  /\ resA.err = NilErr /\ Len(resA.sum) = 16 /\ resB.err = NilErr

====
